---- MODULE Spec2Model ----
(***************************************************************************)
(* Model of torchgeometry/core/affine.py: the matrix builders, affine,     *)
(* the public operations rotate / translate / scale and the nn.Module      *)
(* wrappers Rotate / Translate / Scale.                                    *)
(*                                                                         *)
(* Values.  Every Python value is a record with a field "kind":           *)
(*   kind = "Tensor"  a torch.Tensor, with its shape (a sequence of sizes) *)
(*                    and its data (nested sequences, one level per        *)
(*                    dimension; <<>> for image pixels, which no code of   *)
(*                    this module reads),                                  *)
(*   kind = "None"    Python's None,                                       *)
(*   kind = "str"     some value that is not a tensor.                     *)
(* Center coordinates are held in half-pixel units (the value v stands for *)
(* v/2 pixels), so that (W-1)/2 is exact: 2.0 is written 4, 1.5 is 3.      *)
(***************************************************************************)
EXTENDS Integers, Sequences, FiniteSets, TLC

VARIABLES call, module, given

vars == <<call, module, given>>

\* ---------------------------------------------------------------- bounds

\* largest size of a batch or channel dimension, and of a parameter batch
MaxBatch == 3

\* largest height / width of an image plane
MaxSide == 5

\* ---------------------------------------------------------------- values

None == [kind |-> "None", shape |-> <<>>, data |-> <<>>]

NonTensor == [kind |-> "str", shape |-> <<>>, data |-> <<>>]

Tensor(shape, data) == [kind |-> "Tensor", shape |-> shape, data |-> data]

is_tensor(v) == v.kind = "Tensor"

ndimension(t) == Len(t.shape)

\* an outcome of a call: a returned value or a raised exception; "at" names
\* the statement that raised
Ok(v) == [status |-> "ok", value |-> v, kind |-> "", msg |-> "", at |-> ""]

Raise(kind, msg, at) ==
    [status |-> "error", value |-> None, kind |-> kind, msg |-> msg, at |-> at]

IsOk(o) == o.status = "ok"

\* ------------------------------------------------------ torch primitives

\* torch.unsqueeze(tensor, dim=0)
unsqueeze0(t) == Tensor(<<1>> \o t.shape, <<t.data>>)

\* torch.squeeze(tensor, dim=0): drops the leading dimension when it is 1
squeeze0(t) ==
    IF Len(t.shape) > 0 /\ t.shape[1] = 1
    THEN Tensor(Tail(t.shape), IF t.data = <<>> THEN <<>> ELSE t.data[1])
    ELSE t

\* Tensor.expand(*sizes): sizes are aligned with the trailing dimensions; -1
\* keeps a dimension, a dimension of size 1 is repeated, any other dimension
\* must already have the asked size; new leading dimensions may not be -1.
RECURSIVE expand_ok(_, _)
expand_ok(shape, sizes) ==
    IF Len(sizes) < Len(shape) THEN FALSE
    ELSE IF Len(sizes) = 0 THEN TRUE
    ELSE IF Len(sizes) > Len(shape)
         THEN sizes[1] >= 0 /\ expand_ok(shape, Tail(sizes))
    ELSE /\ \/ sizes[1] = -1
            \/ sizes[1] = shape[1]
            \/ shape[1] = 1 /\ sizes[1] >= 0
         /\ expand_ok(Tail(shape), Tail(sizes))

RECURSIVE expand_shape(_, _)
expand_shape(shape, sizes) ==
    IF Len(sizes) = 0 THEN <<>>
    ELSE IF Len(sizes) > Len(shape)
         THEN <<sizes[1]>> \o expand_shape(shape, Tail(sizes))
    ELSE <<IF sizes[1] = -1 THEN shape[1] ELSE sizes[1]>>
            \o expand_shape(Tail(shape), Tail(sizes))

RECURSIVE expand_data(_, _, _)
expand_data(data, shape, sizes) ==
    IF Len(sizes) = 0 THEN data
    ELSE IF Len(sizes) > Len(shape)
         THEN [i \in 1..sizes[1] |-> expand_data(data, shape, Tail(sizes))]
    ELSE IF sizes[1] = -1 \/ sizes[1] = shape[1]
         THEN [i \in 1..shape[1] |->
                  expand_data(data[i], Tail(shape), Tail(sizes))]
    ELSE [i \in 1..sizes[1] |->
             expand_data(data[1], Tail(shape), Tail(sizes))]

\* v.expand(*sizes) as a statement of the caller "at": a value without the
\* method raises AttributeError, sizes the tensor cannot take RuntimeError
expand(v, sizes, at) ==
    IF ~is_tensor(v) THEN Raise("AttributeError", "expand", at)
    ELSE IF ~expand_ok(v.shape, sizes) THEN Raise("RuntimeError", "expand", at)
    ELSE Ok(Tensor(expand_shape(v.shape, sizes),
                   expand_data(v.data, v.shape, sizes)))

\* torch.ones_like / torch.zeros_like of a vector or a scalar
RECURSIVE fill_like(_, _)
fill_like(shape, x) ==
    IF Len(shape) = 0 THEN x
    ELSE [i \in 1..shape[1] |-> fill_like(Tail(shape), x)]

ones_like(t) == Tensor(t.shape, fill_like(t.shape, 1))

zeros_like(t) == Tensor(t.shape, fill_like(t.shape, 0))

\* matrix[..., :2, :3] of a batch of matrices
slice_2x3(m) ==
    Tensor(<<m.shape[1], 2, 3>>,
           [b \in 1..m.shape[1] |->
               [i \in 1..2 |-> [j \in 1..3 |-> m.data[b][i][j]]]])

\* tensor.shape[-2:]
last2(shape) ==
    IF Len(shape) <= 2 THEN shape
    ELSE SubSeq(shape, Len(shape) - 1, Len(shape))

\* ------------------------------------------------ external collaborators

\* get_rotation_matrix2d(center, angle, scale): one 3x3 matrix per batch
\* entry, composed from that entry's center, angle and scale.  The entries
\* of a matrix are kept symbolic: the cell (row, col) of the matrix of
\* (center, angle, scale).  A shape mismatch is the primitive's own failure.
get_rotation_matrix2d(center, angle, scale) ==
    IF ~(/\ Len(center.shape) = 2 /\ center.shape[2] = 2
         /\ Len(angle.shape) = 1 /\ Len(scale.shape) = 1
         /\ center.shape[1] = angle.shape[1]
         /\ center.shape[1] = scale.shape[1])
    THEN Raise("ValueError", "rotation matrix shapes", "get_rotation_matrix2d")
    ELSE Ok(Tensor(<<center.shape[1], 3, 3>>,
                   [b \in 1..center.shape[1] |->
                       [i \in 1..3 |-> [j \in 1..3 |->
                           [center |-> center.data[b], angle |-> angle.data[b],
                            scale |-> scale.data[b], row |-> i, col |-> j]]]]))

\* warp_affine(src, M, dsize): src is B,C,H,W and M holds B 2x3 matrices;
\* the result is B,C,dsize.  Anything else is the primitive's own failure.
warp_affine(src, M, dsize) ==
    IF ~(/\ Len(src.shape) = 4
         /\ M.shape = <<src.shape[1], 2, 3>>
         /\ Len(dsize) = 2)
    THEN Raise("ValueError", "warp shapes", "warp_affine")
    ELSE Ok(Tensor(<<src.shape[1], src.shape[2], dsize[1], dsize[2]>>, <<>>))

\* ------------------------------------------------------- matrix builders

\* the unpacking "height, width = tensor.shape[-2:]" needs two sizes
compute_tensor_center_swapped(tensor) ==
    IF Len(tensor.shape) < 2
    THEN Raise("ValueError", "not enough values to unpack",
               "_compute_tensor_center")
    ELSE LET height == tensor.shape[Len(tensor.shape) - 1]
             width == tensor.shape[Len(tensor.shape)]
         IN  Ok(Tensor(<<2>>, <<height - 1, width - 1>>))

\* _compute_tensor_center: (center_x, center_y) = ((width-1)/2, (height-1)/2),
\* in half-pixel units (width - 1, height - 1)
compute_tensor_center(tensor) ==
    IF Len(tensor.shape) < 2
    THEN Raise("ValueError", "not enough values to unpack",
               "_compute_tensor_center")
    ELSE LET height == tensor.shape[Len(tensor.shape) - 1]
             width == tensor.shape[Len(tensor.shape)]
             center_x == width - 1
             center_y == height - 1
         IN  Ok(Tensor(<<2>>, <<center_x, center_y>>))

\* _compute_rotation_matrix
compute_rotation_matrix(angle, center) ==
    LET scale_ == ones_like(angle)
    IN  get_rotation_matrix2d(center, angle, scale_)

\* _compute_scaling_matrix
compute_scaling_matrix(scale_, center) ==
    LET angle == zeros_like(scale_)
    IN  get_rotation_matrix2d(center, angle, scale_)

\* torch.eye(3)
eye3 == [i \in 1..3 |-> [j \in 1..3 |-> IF i = j THEN 1 ELSE 0]]

\* torch.chunk(translation, chunks=2, dim=-1) of an (N,2) tensor: dx, dy
chunk2(translation) ==
    LET n == translation.shape[1]
    IN  <<Tensor(<<n, 1>>, [b \in 1..n |-> <<translation.data[b][1]>>]),
          Tensor(<<n, 1>>, [b \in 1..n |-> <<translation.data[b][2]>>])>>

compute_translation_matrix_swapped(translation) ==
    LET n == translation.shape[1]
        dx == chunk2(translation)[1]
        dy == chunk2(translation)[2]
    IN  Tensor(<<n, 3, 3>>,
               [b \in 1..n |-> [i \in 1..3 |-> [j \in 1..3 |->
                   eye3[i][j]
                   + (IF i = 1 /\ j = 3 THEN dy.data[b][1] ELSE 0)
                   + (IF i = 2 /\ j = 3 THEN dx.data[b][1] ELSE 0)]]])

\* _compute_translation_matrix: identity matrices, one per row of the
\* translation, with dx added into cell (0,2) and dy into cell (1,2)
\* (cells are numbered from 1 here: (1,3) and (2,3))
compute_translation_matrix(translation) ==
    LET n == translation.shape[1]
        dx == chunk2(translation)[1]
        dy == chunk2(translation)[2]
    IN  Tensor(<<n, 3, 3>>,
               [b \in 1..n |-> [i \in 1..3 |-> [j \in 1..3 |->
                   eye3[i][j]
                   + (IF i = 1 /\ j = 3 THEN dx.data[b][1] ELSE 0)
                   + (IF i = 2 /\ j = 3 THEN dy.data[b][1] ELSE 0)]]])

\* ---------------------------------------------------------------- affine

\* What a call did besides returning: the default center it computed (None
\* when it computed none), the center it handed to the matrix builder, the
\* matrices the builder returned, and its invocations of warp_affine, each
\* as [src, M, dsize].
Res(out, center_default, pivot, built, warps) ==
    [out |-> out, center_default |-> center_default, pivot |-> pivot,
     built |-> built, warps |-> warps]

\* a variant of affine that does not broadcast the matrix
affine_no_expand(tensor, matrix) ==
    IF Len(tensor.shape) = 0
    THEN Res(Raise("IndexError", "shape[0]", "tensor.shape[0]"),
             None, None, None, <<>>)
    ELSE
    LET is_unbatched == ndimension(tensor) = 3
        tensor1 == IF is_unbatched THEN unsqueeze0(tensor) ELSE tensor
        dsize == last2(tensor1.shape)
        warped == warp_affine(tensor1, matrix, dsize)
        inv == <<[src |-> tensor1, M |-> matrix, dsize |-> dsize]>>
    IN  IF ~IsOk(warped) THEN Res(warped, None, None, None, inv)
        ELSE Res(Ok(IF is_unbatched THEN squeeze0(warped.value)
                    ELSE warped.value), None, None, None, inv)

\* affine(tensor, matrix)
affine(tensor, matrix) ==
    IF Len(tensor.shape) = 0
    THEN Res(Raise("IndexError", "shape[0]", "tensor.shape[0]"),
             None, None, None, <<>>)
    ELSE
    LET is_unbatched == ndimension(tensor) = 3
        tensor1 == IF is_unbatched THEN unsqueeze0(tensor) ELSE tensor
        matrix1 == expand(matrix, <<tensor1.shape[1], -1, -1>>, "affine")
        dsize == last2(tensor1.shape)
        warped == warp_affine(tensor1, matrix1.value, dsize)
        inv == <<[src |-> tensor1, M |-> matrix1.value, dsize |-> dsize]>>
    IN  IF ~IsOk(matrix1) THEN Res(matrix1, None, None, None, <<>>)
        ELSE IF ~IsOk(warped) THEN Res(warped, None, None, None, inv)
        ELSE Res(Ok(IF is_unbatched THEN squeeze0(warped.value)
                    ELSE warped.value), None, None, None, inv)

\* ------------------------------------------------------ public operations

Passed == Ok(None)

\* rotate's checks with the center check testing the center
rotate_checks_on_center(tensor, angle, center) ==
    IF ~is_tensor(tensor)
    THEN Raise("TypeError", "Input tensor type", "rotate")
    ELSE IF ~is_tensor(angle)
    THEN Raise("TypeError", "Input angle type", "rotate")
    ELSE IF center.kind # "None" /\ ~is_tensor(center)
    THEN Raise("TypeError", "Input center type", "rotate")
    ELSE IF Len(tensor.shape) \notin {3, 4}
    THEN Raise("ValueError", "Invalid tensor shape", "rotate")
    ELSE Passed

\* rotate, lines 96-107: the checks, in the order of the code
rotate_checks(tensor, angle, center) ==
    IF ~is_tensor(tensor)
    THEN Raise("TypeError", "Input tensor type", "rotate")
    ELSE IF ~is_tensor(angle)
    THEN Raise("TypeError", "Input angle type", "rotate")
    ELSE IF center.kind # "None" /\ ~is_tensor(angle)
    THEN Raise("TypeError", "Input center type", "rotate")
    ELSE IF Len(tensor.shape) \notin {3, 4}
    THEN Raise("ValueError", "Invalid tensor shape", "rotate")
    ELSE Passed

\* rotate(tensor, angle, center)
rotate(tensor, angle, center) ==
    LET checked == rotate_checks(tensor, angle, center)
        computed == IF center.kind = "None"
                    THEN compute_tensor_center(tensor) ELSE Ok(None)
        center0 == IF center.kind = "None" THEN computed.value ELSE center
        angle1 ==
            IF Len(tensor.shape) = 0
            THEN Raise("IndexError", "shape[0]", "tensor.shape[0]")
            ELSE expand(angle, <<tensor.shape[1]>>, "angle.expand")
        center1 == expand(center0, <<tensor.shape[1], -1>>, "center.expand")
        rotation_matrix == compute_rotation_matrix(angle1.value, center1.value)
        warped == affine(tensor, slice_2x3(rotation_matrix.value))
    IN  IF ~IsOk(checked) THEN Res(checked, None, None, None, <<>>)
        ELSE IF ~IsOk(computed) THEN Res(computed, None, None, None, <<>>)
        ELSE IF ~IsOk(angle1) THEN Res(angle1, computed.value, None, None, <<>>)
        ELSE IF ~IsOk(center1)
             THEN Res(center1, computed.value, None, None, <<>>)
        ELSE IF ~IsOk(rotation_matrix)
             THEN Res(rotation_matrix, computed.value, center1.value, None, <<>>)
        ELSE Res(warped.out, computed.value, center1.value,
                 rotation_matrix.value, warped.warps)

\* translate's checks without the rank check
translate_checks_no_rank(tensor, translation) ==
    IF ~is_tensor(tensor)
    THEN Raise("TypeError", "Input tensor type", "translate")
    ELSE IF ~is_tensor(translation)
    THEN Raise("TypeError", "Input translation type", "translate")
    ELSE Passed

\* translate, lines 133-141
translate_checks(tensor, translation) ==
    IF ~is_tensor(tensor)
    THEN Raise("TypeError", "Input tensor type", "translate")
    ELSE IF ~is_tensor(translation)
    THEN Raise("TypeError", "Input translation type", "translate")
    ELSE IF Len(tensor.shape) \notin {3, 4}
    THEN Raise("ValueError", "Invalid tensor shape", "translate")
    ELSE Passed

\* translate(tensor, translation)
translate(tensor, translation) ==
    LET checked == translate_checks(tensor, translation)
        translation_matrix == compute_translation_matrix(translation)
        warped == affine(tensor, slice_2x3(translation_matrix))
    IN  IF ~IsOk(checked) THEN Res(checked, None, None, None, <<>>)
        ELSE Res(warped.out, None, None, translation_matrix, warped.warps)

\* scale's checks without the scale_factor check
scale_checks_no_factor(tensor, scale_factor) ==
    IF ~is_tensor(tensor)
    THEN Raise("TypeError", "Input tensor type", "scale")
    ELSE Passed

\* scale's checks with the rank check of rotate and translate added
scale_checks_with_rank(tensor, scale_factor) ==
    IF ~is_tensor(tensor)
    THEN Raise("TypeError", "Input tensor type", "scale")
    ELSE IF ~is_tensor(scale_factor)
    THEN Raise("TypeError", "Input scale_factor type", "scale")
    ELSE IF Len(tensor.shape) \notin {3, 4}
    THEN Raise("ValueError", "Invalid tensor shape", "scale")
    ELSE Passed

\* scale, lines 163-168: there is no rank check
scale_checks(tensor, scale_factor) ==
    IF ~is_tensor(tensor)
    THEN Raise("TypeError", "Input tensor type", "scale")
    ELSE IF ~is_tensor(scale_factor)
    THEN Raise("TypeError", "Input scale_factor type", "scale")
    ELSE Passed

\* scale(tensor, scale_factor, center).  In "center.expand(tensor.shape[0],
\* -1)" Python looks the method up first, then reads tensor.shape[0].
scale(tensor, scale_factor, center) ==
    LET checked == scale_checks(tensor, scale_factor)
        computed == IF center.kind = "None"
                    THEN compute_tensor_center(tensor) ELSE Ok(None)
        center0 == IF center.kind = "None" THEN computed.value ELSE center
        center1 ==
            IF ~is_tensor(center0)
            THEN Raise("AttributeError", "expand", "center.expand")
            ELSE IF Len(tensor.shape) = 0
            THEN Raise("IndexError", "shape[0]", "tensor.shape[0]")
            ELSE expand(center0, <<tensor.shape[1], -1>>, "center.expand")
        scale_factor1 ==
            expand(scale_factor, <<tensor.shape[1]>>, "scale_factor.expand")
        scaling_matrix ==
            compute_scaling_matrix(scale_factor1.value, center1.value)
        warped == affine(tensor, slice_2x3(scaling_matrix.value))
    IN  IF ~IsOk(checked) THEN Res(checked, None, None, None, <<>>)
        ELSE IF ~IsOk(computed) THEN Res(computed, None, None, None, <<>>)
        ELSE IF ~IsOk(center1)
             THEN Res(center1, computed.value, None, None, <<>>)
        ELSE IF ~IsOk(scale_factor1)
             THEN Res(scale_factor1, computed.value, None, None, <<>>)
        ELSE IF ~IsOk(scaling_matrix)
             THEN Res(scaling_matrix, computed.value, center1.value, None, <<>>)
        ELSE Res(warped.out, computed.value, center1.value,
                 scaling_matrix.value, warped.warps)

\* ---------------------------------------------------------------- wrappers

\* a transform object: its class and its attributes
Object(cls, angle, center, translation, scale_factor) ==
    [cls |-> cls, angle |-> angle, center |-> center,
     translation |-> translation, scale_factor |-> scale_factor]

NoModule == Object("none", None, None, None, None)

\* Rotate.__init__
Rotate_init(angle, center) == Object("Rotate", angle, center, None, None)

\* Rotate.forward handing no center on
Rotate_forward_no_center(self, input) == rotate(input, self.angle, None)

\* Rotate.forward
Rotate_forward(self, input) == rotate(input, self.angle, self.center)

\* Translate.__init__
Translate_init(translation) ==
    Object("Translate", None, None, translation, None)

\* Translate.forward
Translate_forward(self, input) == translate(input, self.translation)

\* Scale.__init__
Scale_init(scale_factor, center) ==
    Object("Scale", None, center, None, scale_factor)

\* Scale.forward
Scale_forward(self, input) == scale(input, self.scale_factor, self.center)

\* ------------------------------------------------------------- arguments

\* ranks of the image argument: scalars up to five dimensions
Ranks == 0..5

Sides == (MaxSide - 1)..MaxSide

\* shapes of a rank: leading (batch, channel, ...) sizes, then H and W
Shapes(r) ==
    IF r = 0 THEN {<<>>}
    ELSE IF r = 1 THEN {<<w>> : w \in Sides}
    ELSE {[i \in 1..r |-> IF i <= r - 2 THEN lead[i]
                          ELSE IF i = r - 1 THEN hw[1] ELSE hw[2]] :
             lead \in [1..(r - 2) -> 1..MaxBatch], hw \in Sides \X Sides}

Images == {Tensor(s, <<>>) : s \in UNION {Shapes(r) : r \in Ranks}}

ImageArgs == Images \cup {NonTensor}

\* tensors of n elements (n = 1..MaxBatch) and scalar tensors
Vectors(vals) ==
    {Tensor(<<>>, v) : v \in vals}
    \cup UNION {{Tensor(<<n>>, d) : d \in [1..n -> vals]} : n \in 1..MaxBatch}

\* tensors of n rows (n = lo..MaxBatch)
Rows(lo, rows) ==
    UNION {{Tensor(<<n, 2>>, d) : d \in [1..n -> rows]} : n \in lo..MaxBatch}

AngleArgs == Vectors({90}) \cup {NonTensor}

ScaleArgs == Vectors({2}) \cup {NonTensor}

\* a center that no image of these sizes has as its own, in half pixels
CenterPts == {<<1, 2>>}

CenterArgs ==
    {None, NonTensor, Tensor(<<1, 3>>, <<<<1, 2, 0>>>>)}
    \cup {Tensor(<<2>>, p) : p \in CenterPts}
    \cup Rows(1, CenterPts)

TranslationArgs == Rows(0, {<<3, -2>>, <<0, 0>>}) \cup {NonTensor}

MatrixArgs ==
    {slice_2x3(compute_translation_matrix(t)) :
        t \in TranslationArgs \ {NonTensor}}

\* ------------------------------------------------------------------ state

\* call: the call that has just ended, with its arguments and what it did
Call(op, via, tensor, param, center, res) ==
    [op |-> op, via |-> via, tensor |-> tensor, param |-> param,
     center |-> center, out |-> res.out,
     center_default |-> res.center_default, pivot |-> res.pivot,
     built |-> res.built, warps |-> res.warps]

NoCall ==
    Call("none", "", None, None, None, Res(Ok(None), None, None, None, <<>>))

\* module: the transform object; given: the arguments it was built from
Init ==
    /\ call = NoCall
    /\ module = NoModule
    /\ given = NoModule

\* ------------------------------------------------------------------ calls

CallRotate ==
    /\ call = NoCall
    /\ \E tensor \in ImageArgs, angle \in AngleArgs, center \in CenterArgs :
          call' = Call("rotate", "call", tensor, angle, center,
                       rotate(tensor, angle, center))
    /\ UNCHANGED <<module, given>>

CallTranslate ==
    /\ call = NoCall
    /\ \E tensor \in ImageArgs, translation \in TranslationArgs :
          call' = Call("translate", "call", tensor, translation, None,
                       translate(tensor, translation))
    /\ UNCHANGED <<module, given>>

CallScale ==
    /\ call = NoCall
    /\ \E tensor \in ImageArgs, scale_factor \in ScaleArgs,
          center \in CenterArgs :
          call' = Call("scale", "call", tensor, scale_factor, center,
                       scale(tensor, scale_factor, center))
    /\ UNCHANGED <<module, given>>

CallAffine ==
    /\ call = NoCall
    /\ \E tensor \in Images, matrix \in MatrixArgs :
          call' = Call("affine", "call", tensor, matrix, None,
                       affine(tensor, matrix))
    /\ UNCHANGED <<module, given>>

CallTranslationMatrix ==
    /\ call = NoCall
    /\ \E translation \in TranslationArgs \ {NonTensor} :
          call' = Call("_compute_translation_matrix", "call", None,
                       translation, None,
                       Res(Ok(compute_translation_matrix(translation)), None,
                           None, compute_translation_matrix(translation),
                           <<>>))
    /\ UNCHANGED <<module, given>>

\* the caller takes the outcome; the next call may start
Return ==
    /\ call # NoCall
    /\ call' = NoCall
    /\ UNCHANGED <<module, given>>

Next ==
    \/ CallRotate
    \/ CallTranslate
    \/ CallScale
    \/ CallAffine
    \/ CallTranslationMatrix
    \/ Return

Spec == Init /\ [][Next]_vars

\* ------------------------------------------------------ transform objects

Constructed(op, obj) ==
    /\ call = NoCall
    /\ module' = obj
    /\ given' = obj
    /\ call' = Call(op, "init", None, None, None,
                    Res(Ok(None), None, None, None, <<>>))

NewRotate ==
    \E angle \in AngleArgs \cup {None}, center \in CenterArgs :
        Constructed("Rotate.__init__", Rotate_init(angle, center))

NewTranslate ==
    \E translation \in TranslationArgs \cup {None} :
        Constructed("Translate.__init__", Translate_init(translation))

NewScale ==
    \E scale_factor \in ScaleArgs \cup {None}, center \in CenterArgs :
        Constructed("Scale.__init__", Scale_init(scale_factor, center))

ForwardRotate ==
    /\ call = NoCall
    /\ module.cls = "Rotate"
    /\ \E input \in ImageArgs :
          call' = Call("rotate", "forward", input, module.angle,
                       module.center, Rotate_forward(module, input))
    /\ UNCHANGED <<module, given>>

ForwardTranslate ==
    /\ call = NoCall
    /\ module.cls = "Translate"
    /\ \E input \in ImageArgs :
          call' = Call("translate", "forward", input, module.translation,
                       None, Translate_forward(module, input))
    /\ UNCHANGED <<module, given>>

ForwardScale ==
    /\ call = NoCall
    /\ module.cls = "Scale"
    /\ \E input \in ImageArgs :
          call' = Call("scale", "forward", input, module.scale_factor,
                       module.center, Scale_forward(module, input))
    /\ UNCHANGED <<module, given>>

ModuleNext ==
    \/ NewRotate
    \/ NewTranslate
    \/ NewScale
    \/ ForwardRotate
    \/ ForwardTranslate
    \/ ForwardScale
    \/ Return

ModuleSpec == Init /\ [][ModuleNext]_vars

\* ------------------------------------------------------------- properties

\* the image batch size of a rank-3 or rank-4 image: 1, or B
BatchOf(tensor) == IF Len(tensor.shape) = 3 THEN 1 ELSE tensor.shape[1]

IsPublicCall == call.op \in {"rotate", "translate", "scale"}

NoTrace ==
    /\ call.center_default.kind = "None"
    /\ call.pivot.kind = "None"
    /\ call.built.kind = "None"
    /\ call.warps = <<>>

\* C1 (as claimed): rotate, translate and scale, called with an image of
\* rank 3 or 4, a parameter of batch size 1 (angle / scale_factor of one
\* element, translation of shape (1,2)) and no center, complete without
\* error and return a tensor of the input's rank and spatial size.
C1_RankAndSizePreserved ==
    (/\ IsPublicCall
     /\ is_tensor(call.tensor) /\ Len(call.tensor.shape) \in {3, 4}
     /\ is_tensor(call.param)
     /\ call.param.shape = (IF call.op = "translate" THEN <<1, 2>> ELSE <<1>>)
     /\ call.center.kind = "None")
    => /\ IsOk(call.out)
       /\ Len(call.out.value.shape) = Len(call.tensor.shape)
       /\ last2(call.out.value.shape) = last2(call.tensor.shape)

\* C2: rotate and translate, called with a tensor image whose rank is not 3
\* or 4 and a tensor parameter, raise the ValueError "Invalid tensor shape",
\* having computed no center, built no matrix and invoked no warp.
C2_RankErrorFirst ==
    (/\ call.op \in {"rotate", "translate"}
     /\ is_tensor(call.tensor) /\ is_tensor(call.param)
     /\ Len(call.tensor.shape) \notin {3, 4})
    => /\ call.out = Raise("ValueError", "Invalid tensor shape", call.op)
       /\ NoTrace

C2_Witness ==
    /\ call.op = "translate"
    /\ is_tensor(call.tensor) /\ Len(call.tensor.shape) = 5
    /\ is_tensor(call.param)
    /\ call.out.kind = "ValueError"

\* C3: in rotate, translate and scale an image that is not a tensor raises
\* the TypeError of the image, and otherwise a parameter that is not a
\* tensor raises the TypeError of the parameter, whatever the other
\* arguments are, with no center computed, no matrix built, no warp invoked.
C3_TypeErrorFirst ==
    IsPublicCall =>
        LET name == IF call.op = "rotate" THEN "angle"
                    ELSE IF call.op = "translate" THEN "translation"
                    ELSE "scale_factor"
        IN  /\ ~is_tensor(call.tensor) =>
                /\ call.out = Raise("TypeError", "Input tensor type", call.op)
                /\ NoTrace
            /\ (is_tensor(call.tensor) /\ ~is_tensor(call.param)) =>
                /\ call.out.kind = "TypeError"
                /\ call.out.at = call.op
                /\ call.out.msg =
                      (IF name = "angle" THEN "Input angle type"
                       ELSE IF name = "translation"
                            THEN "Input translation type"
                       ELSE "Input scale_factor type")
                /\ NoTrace

C3_Witness ==
    /\ call.op = "scale"
    /\ is_tensor(call.tensor) /\ Len(call.tensor.shape) = 2
    /\ ~is_tensor(call.param)
    /\ call.center.kind = "str"
    /\ call.out.kind = "TypeError"

\* C4: for a translation of shape (N,2), _compute_translation_matrix
\* returns N 3x3 matrices; matrix i has dx_i in cell (0,2), dy_i in cell
\* (1,2) and the identity's value in every other cell.
C4_TranslationMatrix ==
    (call.op \in {"_compute_translation_matrix", "translate"}
     /\ is_tensor(call.built))
    => /\ call.built.shape = <<call.param.shape[1], 3, 3>>
       /\ Len(call.built.data) = call.param.shape[1]
       /\ \A b \in 1..call.param.shape[1] : \A i \in 1..3 : \A j \in 1..3 :
             call.built.data[b][i][j] =
                 IF i = 1 /\ j = 3 THEN call.param.data[b][1]
                 ELSE IF i = 2 /\ j = 3 THEN call.param.data[b][2]
                 ELSE IF i = j THEN 1 ELSE 0

C4_Witness ==
    /\ call.op = "_compute_translation_matrix"
    /\ call.param.shape = <<2, 2>>
    /\ call.param.data[2] = <<3, -2>>
    /\ call.built.data[2][1][3] = 3
    /\ call.built.data[2][2][3] = -2

\* C5: in rotate and scale, when no center is given every matrix is built
\* about ((W-1)/2, (H-1)/2) of the image's last two dimensions (in half
\* pixels: (W-1, H-1)); when a center is given no default is computed and
\* the matrices are built about the given center.
C5_DefaultCenter ==
    (call.op \in {"rotate", "scale"} /\ is_tensor(call.pivot)) =>
        LET shape == call.tensor.shape
            H == shape[Len(shape) - 1]
            W == shape[Len(shape)]
            rows == 1..call.pivot.shape[1]
        IN  /\ call.center.kind = "None" =>
                /\ is_tensor(call.center_default)
                /\ call.center_default.data = <<W - 1, H - 1>>
                /\ \A b \in rows : call.pivot.data[b] = <<W - 1, H - 1>>
            /\ call.center.kind # "None" =>
                /\ call.center_default.kind = "None"
                /\ \A b \in rows :
                      call.pivot.data[b] =
                          IF Len(call.center.shape) = 1 THEN call.center.data
                          ELSE IF call.center.shape[1] = 1
                               THEN call.center.data[1]
                          ELSE call.center.data[b]
            /\ is_tensor(call.built) =>
                \A b \in rows : \A i \in 1..3 : \A j \in 1..3 :
                    call.built.data[b][i][j].center = call.pivot.data[b]

C5_Witness ==
    /\ call.op = "rotate"
    /\ call.center.kind = "None"
    /\ last2(call.tensor.shape) = <<5, 5>>
    /\ Len(call.tensor.shape) = 4 /\ call.tensor.shape[1] = 2
    /\ is_tensor(call.built)
    /\ call.built.data[2][1][1].center = <<4, 4>>
    /\ IsOk(call.out)

\* C6: constructing Rotate, Translate or Scale never raises, an invocation
\* leaves the stored parameters as they were given at construction, and its
\* outcome is that of rotate / translate / scale called with the image and
\* the parameters given at construction.
C6_WrapperEquivalence ==
    /\ call.via = "init" => IsOk(call.out)
    /\ module = given
    /\ call.via = "forward" =>
          LET free == IF given.cls = "Rotate"
                      THEN rotate(call.tensor, given.angle, given.center)
                      ELSE IF given.cls = "Translate"
                      THEN translate(call.tensor, given.translation)
                      ELSE scale(call.tensor, given.scale_factor, given.center)
          IN  /\ call.out.status = free.out.status
              /\ call.out.kind = free.out.kind
              /\ call.out.msg = free.out.msg
              /\ call.out.at = free.out.at
              /\ call.out.value.kind = free.out.value.kind
              /\ call.out.value.shape = free.out.value.shape
              /\ call.pivot.kind = free.pivot.kind
              /\ call.pivot.data = free.pivot.data
              /\ Len(call.warps) = Len(free.warps)

C6_Witness ==
    /\ call.via = "forward"
    /\ given.cls = "Rotate"
    /\ is_tensor(given.center) /\ given.center.shape = <<1, 2>>
    /\ Len(call.tensor.shape) = 4 /\ call.tensor.shape[1] = 3
    /\ IsOk(call.out)
    /\ call.pivot.data[3] = given.center.data[1]

\* C7 (as claimed): in rotate and scale the parameters are expanded to the
\* image batch size (B for a (B,C,H,W) image, 1 for a (C,H,W) image), so
\* the builder returns as many matrices as affine hands images to the warp.
C7_ExpandedToImageBatch ==
    (/\ call.op \in {"rotate", "scale"}
     /\ is_tensor(call.tensor) /\ Len(call.tensor.shape) \in {3, 4}
     /\ is_tensor(call.built))
    => /\ call.built.shape[1] = BatchOf(call.tensor)
       /\ call.pivot.shape[1] = BatchOf(call.tensor)
       /\ Len(call.warps) = 1
       /\ call.warps[1].src.shape[1] = call.built.shape[1]

\* C8: affine, given an image of batch size N (1 for rank 3, B for rank 4)
\* and M 2x3 matrices: if M = 1 or M = N the warp is invoked exactly once,
\* with the image as B,C,H,W, N matrices (the one matrix repeated when
\* M = 1) and the image's own (H,W) as output size; for any other M >= 1
\* the broadcast fails and the warp is not invoked.
C8_AffineBroadcast ==
    (call.op = "affine" /\ Len(call.tensor.shape) \in {3, 4}) =>
        LET N == BatchOf(call.tensor)
            M == call.param.shape[1]
        IN  /\ (M = 1 \/ M = N) =>
                /\ Len(call.warps) = 1
                /\ Len(call.warps[1].src.shape) = 4
                /\ call.warps[1].src.shape[1] = N
                /\ call.warps[1].M.shape = <<N, 2, 3>>
                /\ \A b \in 1..N :
                      call.warps[1].M.data[b] =
                          call.param.data[IF M = 1 THEN 1 ELSE b]
                /\ call.warps[1].dsize = last2(call.tensor.shape)
            /\ (M >= 1 /\ M # 1 /\ M # N) =>
                /\ call.out = Raise("RuntimeError", "expand", "affine")
                /\ call.warps = <<>>

C8_Witness ==
    /\ call.op = "affine"
    /\ call.tensor.shape = <<3, 2, 4, 5>>
    /\ call.param.shape = <<1, 2, 3>>
    /\ Len(call.warps) = 1
    /\ call.warps[1].M.shape = <<3, 2, 3>>
    /\ call.warps[1].dsize = <<4, 5>>
    /\ IsOk(call.out)

\* the case of C9: a tensor image, a tensor angle and a center that is
\* neither None nor a tensor
RotateOddCenter ==
    /\ call.op = "rotate"
    /\ is_tensor(call.tensor) /\ is_tensor(call.param)
    /\ call.center.kind = "str"

\* C9 (as claimed): rotate's "Input center type" check tests the angle: no
\* call of rotate raises that TypeError; a call with a tensor image, a
\* tensor angle and a center that is not a tensor raises no TypeError, and
\* having passed the checks it fails where the center is expanded.
C9_FailsAtCenterExpand ==
    call.op = "rotate" =>
        /\ call.out.msg # "Input center type"
        /\ RotateOddCenter =>
              /\ call.out.kind # "TypeError"
              /\ Len(call.tensor.shape) \in {3, 4} =>
                    call.out =
                        Raise("AttributeError", "expand", "center.expand")

\* C9 (amended): as claimed, but a call that has passed the checks fails
\* where the angle is expanded when the angle cannot take the size of the
\* image's first dimension, and otherwise where the center is expanded.
C9_CenterCheckTestsAngle ==
    call.op = "rotate" =>
        /\ call.out.msg # "Input center type"
        /\ RotateOddCenter =>
              /\ call.out.kind # "TypeError"
              /\ Len(call.tensor.shape) \in {3, 4} =>
                    IF call.param.shape \in
                          {<<>>, <<1>>, <<call.tensor.shape[1]>>}
                    THEN call.out =
                            Raise("AttributeError", "expand", "center.expand")
                    ELSE call.out =
                            Raise("RuntimeError", "expand", "angle.expand")

C9_Witness ==
    /\ RotateOddCenter
    /\ Len(call.tensor.shape) = 4
    /\ call.out.kind = "AttributeError"
    /\ call.out.at = "center.expand"

\* where a delegated failure is raised: the expand, rotation-matrix and
\* warp primitives
DelegatedSites ==
    {"center.expand", "scale_factor.expand", "get_rotation_matrix2d",
     "affine", "warp_affine"}

ScaleOutOfRank ==
    /\ call.op = "scale"
    /\ is_tensor(call.tensor) /\ is_tensor(call.param)
    /\ Len(call.tensor.shape) \notin {3, 4}

\* C10 (as claimed): scale, called with a tensor image of a rank outside
\* {3,4} and a tensor scale_factor, never raises "Invalid tensor shape",
\* and any failure is a delegated error of the expand, rotation-matrix or
\* warp primitives.
C10_OnlyDelegatedFailures ==
    ScaleOutOfRank =>
        /\ call.out.msg # "Invalid tensor shape"
        /\ IsOk(call.out) \/ call.out.at \in DelegatedSites

\* C10 (amended): scale, called with a tensor image of a rank outside {3,4}
\* and a tensor scale_factor, never raises "Invalid tensor shape", although
\* rotate does for the same arguments.  A failure is a delegated error of
\* the expand, rotation-matrix or warp primitives, or, for an image of rank
\* below 2, the unpacking ValueError of _compute_tensor_center (no center
\* given) or the IndexError of tensor.shape[0] (rank 0, a tensor center).
C10_NoRankValidation ==
    ScaleOutOfRank =>
        /\ call.out.msg # "Invalid tensor shape"
        /\ rotate(call.tensor, call.param, call.center).out =
              Raise("ValueError", "Invalid tensor shape", "rotate")
        /\ \/ IsOk(call.out)
           \/ call.out.at \in DelegatedSites
           \/ /\ call.out = Raise("ValueError", "not enough values to unpack",
                                  "_compute_tensor_center")
              /\ Len(call.tensor.shape) < 2
              /\ call.center.kind = "None"
           \/ /\ call.out = Raise("IndexError", "shape[0]", "tensor.shape[0]")
              /\ Len(call.tensor.shape) = 0
              /\ is_tensor(call.center)
        /\ Len(call.tensor.shape) >= 2 => call.out.at \in DelegatedSites

C10_Witness ==
    /\ ScaleOutOfRank
    /\ Len(call.tensor.shape) = 5
    /\ call.center.kind = "None"
    /\ Len(call.warps) = 1
    /\ call.out.at = "warp_affine"

====
